---------------------------- MODULE Spec2Model ----------------------------
(***************************************************************************)
(* A model of minitest (src/src/MiniTest.h, src/src/MiniTest.cpp): the     *)
(* TestResult failure / predicate-context bookkeeping, the chained message *)
(* operators, checkEqual, and the Runner that drives test cases.           *)
(*                                                                         *)
(* Text is a sequence of one-character strings, so that formatting,        *)
(* concatenation and "contains" are computed and not assumed.              *)
(* A Failure* is an index into failures_ (a std::deque: push_back keeps    *)
(* references to its elements valid), 0 standing for nullptr.              *)
(* The predicate chain rootPredicateNode_.next_ -> ... is the sequence     *)
(* chain; a PredicateContext* is a position in it, 0 standing for the      *)
(* root node.                                                              *)
(***************************************************************************)
EXTENDS Integers, Sequences, FiniteSets, TLC

\* ------------------------------------------------------------------ bounds

\* Assertion-API calls explored in one test body (specification Spec).
MaxOps == 4
\* Assertion-API calls explored over a whole run (specification SpecRunner).
RunnerOps == 2
\* Test cases registered with the Runner (specification SpecRunner).
MaxTests == 3

\* -------------------------------------------------------------------- text

\* const char*: a null pointer, or a string.
NullStr == [null |-> TRUE, str |-> <<>>]
CStr(s) == [null |-> FALSE, str |-> s]

ExpectedLabel == <<"E","x","p","e","c","t","e","d",":"," ">>
ActualLabel == <<"A","c","t","u","a","l"," "," ",":"," ">>
Newline == <<"\n">>
ExceptionLabel == <<"U","n","e","x","p","e","c","t","e","d"," ","e","x","c","e","p","t","i","o","n"," ","c","a","u","g","h","t",":">>
TrueText == <<"t","r","u","e">>
FalseText == <<"f","a","l","s","e">>

Digits == <<"0","1","2","3","4","5","6","7","8","9">>

\* The decimal digits of a natural number, most significant first.
RECURSIVE NatToString(_)
NatToString(n) ==
  IF n < 10 THEN <<Digits[n + 1]>>
  ELSE NatToString(n \div 10) \o <<Digits[(n % 10) + 1]>>

\* std::to_string of a 64-bit integer.
to_string(v) == IF v < 0 THEN <<"-">> \o NatToString(0 - v) ELSE NatToString(v)

\* The values a test body streams into a TestResult.
Int64V(n) == [kind |-> "int64", n |-> n, b |-> FALSE, s |-> <<>>]
UInt64V(n) == [kind |-> "uint64", n |-> n, b |-> FALSE, s |-> <<>>]
BoolV(b) == [kind |-> "bool", n |-> 0, b |-> b, s |-> <<>>]
IntV(n) == [kind |-> "int", n |-> n, b |-> FALSE, s |-> <<>>]
TextV(s) == [kind |-> "text", n |-> 0, b |-> FALSE, s |-> s]
NoValue == [kind |-> "none", n |-> 0, b |-> FALSE, s |-> <<>>]

\* oss << std::setprecision(16) << std::hexfloat << value; oss.str(), for the
\* value types of this repository's callers (character strings and int):
\* neither manipulator changes how a string or an integer is written.
StreamInsert(v) == IF v.kind = "text" THEN v.s ELSE to_string(v.n)

\* ------------------------------------------------------------ source sites

Site(file, line, expr) == [file |-> file, line |-> line, expr |-> expr]
NoSite == Site(NullStr, 0, NullStr)

FileName == CStr(<<"t",".","c">>)

\* __FILE__, __LINE__, #expr of JSONTEST_ASSERT; addFailure's expr defaults
\* to nullptr.
AssertSites == { Site(FileName, 11, CStr(<<"x">>)), Site(FileName, 12, NullStr) }

\* __FILE__, __LINE__, #expr of JSONTEST_ASSERT_PRED.
PredSites == { Site(FileName, 21, CStr(<<"p">>)), Site(FileName, 22, CStr(<<"q">>)) }

\* #expected " == " #actual of MINITEST_ASSERT_EQUAL.
EqualSite == Site(FileName, 37, CStr(<<"a"," ","=","="," ","b">>))

Int64Values == {-3, 0, 12}
UInt64Values == {105}
IntValues == {40}
Texts == { <<"m">>, <<"u","\n","v">> }
EqualValues == {1, 2}

\* ------------------------------------------------------------- TestResult

\* TestResult::TestResult and the member initialisers.
TestResult ==
  [ failures_ |-> <<>>,
    name_ |-> <<>>,
    chain |-> <<>>,
    predicateId_ |-> 1,
    predicateStackTail_ |-> 0,
    lastUsedPredicateId_ |-> 0,
    messageTarget_ |-> 0 ]

setTestName(r, name) == [r EXCEPT !.name_ = name]

\* addFailureInfo with the push_back inside the if (expr) block.
addFailureInfoExprOnly(r, file, line, expr, nestingLevel) ==
  IF expr.null THEN r
  ELSE [r EXCEPT !.failures_ =
          Append(@, [ file_ |-> file, line_ |-> line, expr_ |-> expr.str,
                      message_ |-> <<>>, nestingLevel_ |-> nestingLevel,
                      from_ |-> 0 ])]

\* from_ is instrumentation: the id of the PredicateContext a record was
\* made for, 0 for the record of a failed assertion.
addFailureInfo(r, file, line, expr, nestingLevel) ==
  LET failure == [ file_ |-> file,
                   line_ |-> line,
                   expr_ |-> IF expr.null THEN <<>> ELSE expr.str,
                   message_ |-> <<>>,
                   nestingLevel_ |-> nestingLevel,
                   from_ |-> 0 ]
  IN [r EXCEPT !.failures_ = Append(@, failure)]

\* visitPredicate without the advance of lastUsedPredicateId_.
visitPredicateNoWatermark(r, i, nestingLevel) ==
  LET lastNode == r.chain[i]
  IN IF lastNode.id_ > r.lastUsedPredicateId_
     THEN LET r2 == addFailureInfo(r, lastNode.file_, lastNode.line_,
                                   lastNode.expr_, nestingLevel)
              back == Len(r2.failures_)
          IN [r2 EXCEPT !.chain[i].failure_ = back,
                        !.failures_[back].from_ = lastNode.id_]
     ELSE r

\* visitPredicate with >= in the place of >.
visitPredicateInclusive(r, i, nestingLevel) ==
  LET lastNode == r.chain[i]
  IN IF lastNode.id_ >= r.lastUsedPredicateId_
     THEN LET r1 == [r EXCEPT !.lastUsedPredicateId_ = lastNode.id_]
              r2 == addFailureInfo(r1, lastNode.file_, lastNode.line_,
                                   lastNode.expr_, nestingLevel)
              back == Len(r2.failures_)
          IN [r2 EXCEPT !.chain[i].failure_ = back,
                        !.failures_[back].from_ = lastNode.id_]
     ELSE r

\* visitPredicate without lastNode->failure_ = &failures_.back().
visitPredicateNoLink(r, i, nestingLevel) ==
  LET lastNode == r.chain[i]
  IN IF lastNode.id_ > r.lastUsedPredicateId_
     THEN LET r1 == [r EXCEPT !.lastUsedPredicateId_ = lastNode.id_]
              r2 == addFailureInfo(r1, lastNode.file_, lastNode.line_,
                                   lastNode.expr_, nestingLevel)
              back == Len(r2.failures_)
          IN [r2 EXCEPT !.failures_[back].from_ = lastNode.id_]
     ELSE r

\* One PredicateContext of the walk of addFailure (the body of the for loop,
\* without the ++nestingLevel).
visitPredicate(r, i, nestingLevel) ==
  LET lastNode == r.chain[i]
  IN IF lastNode.id_ > r.lastUsedPredicateId_
     THEN LET r1 == [r EXCEPT !.lastUsedPredicateId_ = lastNode.id_]
              r2 == addFailureInfo(r1, lastNode.file_, lastNode.line_,
                                   lastNode.expr_, nestingLevel)
              back == Len(r2.failures_)
          IN [r2 EXCEPT !.chain[i].failure_ = back,
                        !.failures_[back].from_ = lastNode.id_]
     ELSE r

\* walkPredicates without the ++nestingLevel.
RECURSIVE walkPredicatesFlat(_, _, _)
walkPredicatesFlat(r, i, nestingLevel) ==
  IF i > Len(r.chain)
  THEN [r |-> r, nestingLevel |-> nestingLevel]
  ELSE walkPredicatesFlat(visitPredicate(r, i, nestingLevel), i + 1, nestingLevel)

\* walkPredicates with the ++nestingLevel inside the if, for new frames only.
RECURSIVE walkPredicatesCountNew(_, _, _)
walkPredicatesCountNew(r, i, nestingLevel) ==
  IF i > Len(r.chain)
  THEN [r |-> r, nestingLevel |-> nestingLevel]
  ELSE walkPredicatesCountNew(visitPredicate(r, i, nestingLevel), i + 1,
                              IF r.chain[i].id_ > r.lastUsedPredicateId_
                              THEN nestingLevel + 1 ELSE nestingLevel)

\* The for loop of addFailure from node i of the chain on; yields the
\* TestResult and the nestingLevel reached.
RECURSIVE walkPredicates(_, _, _)
walkPredicates(r, i, nestingLevel) ==
  IF i > Len(r.chain)
  THEN [r |-> r, nestingLevel |-> nestingLevel]
  ELSE walkPredicates(visitPredicate(r, i, nestingLevel), i + 1, nestingLevel + 1)

\* addFailure setting messageTarget_ only while it is null.
addFailureKeepTarget(r, file, line, expr) ==
  LET w == walkPredicates(r, 1, 0)
      r1 == addFailureInfo(w.r, file, line, expr, w.nestingLevel)
  IN IF r.messageTarget_ # 0 THEN r1
     ELSE [r1 EXCEPT !.messageTarget_ = Len(r1.failures_)]

\* addFailure(file, line, expr): the walk of the chain, the record of the
\* failure itself, and messageTarget_ on that record.
addFailure(r, file, line, expr) ==
  LET w == walkPredicates(r, 1, 0)
      r1 == addFailureInfo(w.r, file, line, expr, w.nestingLevel)
  IN [r1 EXCEPT !.messageTarget_ = Len(r1.failures_)]

\* The while loop of popPredicateContext: the node before the tail (0: root).
RECURSIVE secondToLast(_, _)
secondToLast(r, lastNode) ==
  IF lastNode + 1 <= Len(r.chain) /\ lastNode + 2 <= Len(r.chain)
  THEN secondToLast(r, lastNode + 1)
  ELSE lastNode

\* popPredicateContext without the message target update.
popPredicateContextNoRetarget(r) ==
  LET lastNode == secondToLast(r, 0)
  IN [r EXCEPT !.predicateStackTail_ = lastNode,
               !.chain = SubSeq(@, 1, lastNode)]

\* popPredicateContext taking lastUsedPredicateId_ back to the new tail.
popPredicateContextLowerWatermark(r) ==
  LET lastNode == secondToLast(r, 0)
      hasTail == lastNode + 1 <= Len(r.chain)
      r1 == IF hasTail /\ r.chain[lastNode + 1].failure_ # 0
            THEN [r EXCEPT !.messageTarget_ = r.chain[lastNode + 1].failure_]
            ELSE r
  IN [r1 EXCEPT !.predicateStackTail_ = lastNode,
                !.chain = SubSeq(@, 1, lastNode),
                !.lastUsedPredicateId_ =
                   IF lastNode = 0 THEN 0 ELSE r.chain[lastNode].id_]

\* popPredicateContext setting messageTarget_ to tail->failure_ whenever
\* that is null, and to null when there is no tail.
popPredicateContextClearTarget(r) ==
  LET lastNode == secondToLast(r, 0)
      hasTail == lastNode + 1 <= Len(r.chain)
      r1 == IF hasTail /\ r.chain[lastNode + 1].failure_ # 0
            THEN [r EXCEPT !.messageTarget_ = r.chain[lastNode + 1].failure_]
            ELSE IF hasTail THEN r ELSE [r EXCEPT !.messageTarget_ = 0]
  IN [r1 EXCEPT !.predicateStackTail_ = lastNode,
                !.chain = SubSeq(@, 1, lastNode)]

\* popPredicateContext without predicateStackTail_ = lastNode.
popPredicateContextKeepTail(r) ==
  LET lastNode == secondToLast(r, 0)
      hasTail == lastNode + 1 <= Len(r.chain)
      r1 == IF hasTail /\ r.chain[lastNode + 1].failure_ # 0
            THEN [r EXCEPT !.messageTarget_ = r.chain[lastNode + 1].failure_]
            ELSE r
  IN [r1 EXCEPT !.chain = SubSeq(@, 1, lastNode)]

\* popPredicateContext(): the walk to the node before the tail, the retarget
\* to the tail's failure_, and the unlinking of the tail.
popPredicateContext(r) ==
  LET lastNode == secondToLast(r, 0)
      hasTail == lastNode + 1 <= Len(r.chain)
      r1 == IF hasTail /\ r.chain[lastNode + 1].failure_ # 0
            THEN [r EXCEPT !.messageTarget_ = r.chain[lastNode + 1].failure_]
            ELSE r
  IN [r1 EXCEPT !.predicateStackTail_ = lastNode,
                !.chain = SubSeq(@, 1, lastNode)]

\* pushPredicateContext without the post-increment of predicateId_.
pushPredicateContextSameId(r, site) ==
  LET context == [ id_ |-> r.predicateId_,
                   file_ |-> site.file,
                   line_ |-> site.line,
                   expr_ |-> site.expr,
                   failure_ |-> 0 ]
  IN [r EXCEPT !.chain = Append(SubSeq(@, 1, r.predicateStackTail_), context),
               !.predicateStackTail_ = @ + 1]

\* JSONTEST_ASSERT_PRED up to the evaluation of (expr): the new context is
\* linked after the node predicateStackTail_ designates.
pushPredicateContext(r, site) ==
  LET context == [ id_ |-> r.predicateId_,
                   file_ |-> site.file,
                   line_ |-> site.line,
                   expr_ |-> site.expr,
                   failure_ |-> 0 ]
  IN [r EXCEPT !.chain = Append(SubSeq(@, 1, r.predicateStackTail_), context),
               !.predicateId_ = @ + 1,
               !.predicateStackTail_ = @ + 1]

\* failed without the negation.
failedInverted(r) == r.failures_ = <<>>

failed(r) == r.failures_ # <<>>

\* addToLastFailure that makes a record when there is no message target.
addToLastFailureUnguarded(r, message) ==
  IF r.messageTarget_ # 0
  THEN [r EXCEPT !.failures_[r.messageTarget_].message_ = @ \o message]
  ELSE [r EXCEPT !.failures_ =
          Append(@, [ file_ |-> NullStr, line_ |-> 0, expr_ |-> <<>>,
                      message_ |-> message, nestingLevel_ |-> 0, from_ |-> 0 ]),
                 !.messageTarget_ = Len(r.failures_) + 1]

\* addToLastFailure appending to expr_ instead of message_.
addToLastFailureToExpr(r, message) ==
  IF r.messageTarget_ # 0
  THEN [r EXCEPT !.failures_[r.messageTarget_].expr_ = @ \o message]
  ELSE r

\* addToLastFailure(message): appended to the message of the target, if any.
addToLastFailure(r, message) ==
  IF r.messageTarget_ # 0
  THEN [r EXCEPT !.failures_[r.messageTarget_].message_ = @ \o message]
  ELSE r

\* operator<<(bool) writing the value as the stream's default does.
insertBoolAsNumber(r, value) == addToLastFailure(r, IF value THEN <<"1">> ELSE <<"0">>)

\* operator<<: the bool, int64_t and uint64_t overloads and the template.
insertBool(r, value) == addToLastFailure(r, IF value THEN TrueText ELSE FalseText)
insertInt64(r, value) == addToLastFailure(r, to_string(value))
insertUInt64(r, value) == addToLastFailure(r, to_string(value))
insertGeneric(r, v) == addToLastFailure(r, StreamInsert(v))

insert(r, v) ==
  CASE v.kind = "bool" -> insertBool(r, v.b)
    [] v.kind = "int64" -> insertInt64(r, v.n)
    [] v.kind = "uint64" -> insertUInt64(r, v.n)
    [] OTHER -> insertGeneric(r, v)

\* checkEqual<int, int>: static_cast<U>(expected) is expected itself.
checkEqual(r, expected, actual, site) ==
  IF expected # actual
  THEN LET r1 == addFailure(r, site.file, site.line, site.expr)
           r2 == insertGeneric(r1, TextV(ExpectedLabel))
           r3 == insertGeneric(r2, IntV(expected))
           r4 == insertGeneric(r3, TextV(Newline))
           r5 == insertGeneric(r4, TextV(ActualLabel))
       IN insertGeneric(r5, IntV(actual))
  ELSE r

\* MINITEST_ASSERT_EQUAL taking (actual, expected).
MINITEST_ASSERT_EQUAL_swapped(r, first, second, site) == checkEqual(r, second, first, site)

\* MINITEST_ASSERT_EQUAL(expected, actual): the first macro argument is
\* passed as expected, the second as actual.
MINITEST_ASSERT_EQUAL(r, first, second, site) == checkEqual(r, first, second, site)

\* ------------------------------------------------------------------ print

Spaces(n) == [i \in 1..n |-> " "]

\* text.find(ch, from) on 0-based positions; -1 stands for npos.
RECURSIVE find(_, _, _)
find(text, ch, from) ==
  IF from >= Len(text) THEN -1
  ELSE IF text[from + 1] = ch THEN from
  ELSE find(text, ch, from + 1)

\* The while loop of indentText from lastIndex on.
RECURSIVE indentFrom(_, _, _, _)
indentFrom(text, indent, lastIndex, reindented) ==
  IF lastIndex < Len(text)
  THEN LET found == find(text, "\n", lastIndex)
           nextIndex == IF found = -1 THEN Len(text) - 1 ELSE found
       IN indentFrom(text, indent, nextIndex + 1,
                     reindented \o indent \o SubSeq(text, lastIndex + 1, nextIndex + 1))
  ELSE reindented

indentText(text, indent) == indentFrom(text, indent, 0, <<>>)

DetailPrefix == <<"*"," ","D","e","t","a","i","l"," ","o","f"," ">>
DetailSuffix == <<" ","t","e","s","t"," ","f","a","i","l","u","r","e",":","\n">>

\* What printFailure writes for one Failure.
printOneFailure(failure) ==
  LET indent == Spaces(failure.nestingLevel_ * 2)
      location == IF ~failure.file_.null
                  THEN indent \o failure.file_.str \o <<"(">>
                       \o to_string(failure.line_) \o <<")", ":", " ">>
                  ELSE <<>>
      expression == IF failure.expr_ # <<>> THEN failure.expr_ \o Newline
                    ELSE IF ~failure.file_.null THEN Newline
                    ELSE <<>>
      message == IF failure.message_ # <<>>
                 THEN indentText(failure.message_, indent \o <<" ", " ">>) \o Newline
                 ELSE <<>>
  IN location \o expression \o message

\* printFailuresFrom writing the last Failure first.
RECURSIVE printFailuresFromReversed(_, _)
printFailuresFromReversed(failures, i) ==
  IF i > Len(failures) THEN <<>>
  ELSE printFailuresFromReversed(failures, i + 1) \o printOneFailure(failures[i])

RECURSIVE printFailuresFrom(_, _)
printFailuresFrom(failures, i) ==
  IF i > Len(failures) THEN <<>>
  ELSE printOneFailure(failures[i]) \o printFailuresFrom(failures, i + 1)

\* What printFailure writes to stdout.
printFailure(r, printTestName) ==
  IF r.failures_ = <<>> THEN <<>>
  ELSE (IF printTestName THEN DetailPrefix \o r.name_ \o DetailSuffix ELSE <<>>)
       \o printFailuresFrom(r.failures_, 1)

\* ----------------------------------------------------------------- Runner

TestingPrefix == <<"T","e","s","t","i","n","g"," ">>
ColonSpace == <<":"," ">>
StatusFailed == <<"F","A","I","L","E","D">>
StatusOk == <<"O","K">>
AllPrefix == <<"A","l","l"," ">>
TestsPassedNl == <<" ","t","e","s","t","s"," ","p","a","s","s","e","d","\n">>
TestsPassedOpen == <<" ","t","e","s","t","s"," ","p","a","s","s","e","d"," ","(">>
FailuresCloseNl == <<" ","f","a","i","l","u","r","e","(","s",")",")","\n">>

\* testName() of the i-th registered test case: "<Fixture>/<CaseName>".
TestName(i) == <<"F", "/">> \o NatToString(i)

\* __FILE__, __LINE__ and the label of the catch block of runTestAt.
CatchSite == Site(CStr(<<"M",".","c">>), 176, CStr(ExceptionLabel))

\* e.what() of the exceptions a test body throws.
Whats == { <<"b", "a", "d">> }

\* runTestAt up to test->run(result): the name is set and the progress line
\* begun.
beginTestOutput(name) == TestingPrefix \o name \o ColonSpace

\* The catch block of runTestAt, the walk of addFailure reading the first
\* seen nodes of the chain.
catchException(r, what, seen) ==
  insertGeneric(addFailure([r EXCEPT !.chain = SubSeq(@, 1, seen)],
                           CatchSite.file, CatchSite.line, CatchSite.expr),
                TextV(what))

\* runTestAt after the test case has run: the status line.
statusOutput(r) == (IF failed(r) THEN StatusFailed ELSE StatusOk) \o Newline

\* collect putting the failing result in front.
collectFront(failures, r) == IF failed(r) THEN <<r>> \o failures ELSE failures

\* The body of the for loop of runAllTest after runTestAt.
collect(failures, r) == IF failed(r) THEN Append(failures, r) ELSE failures

RECURSIVE printAllFailures(_, _, _)
printAllFailures(failures, i, count) ==
  IF i > Len(failures) THEN <<>>
  ELSE printFailure(failures[i], count > 1) \o printAllFailures(failures, i + 1, count)

\* passedCount without the subtraction.
passedCountIsCount(count, failedCount) == count

\* size_t const passedCount = count - failedCount.
passedCount(count, failedCount) == count - failedCount

\* runAllTest after the for loop: what it prints.
summaryOutput(failures, count, printSummary) ==
  IF failures = <<>>
  THEN IF printSummary THEN AllPrefix \o NatToString(count) \o TestsPassedNl ELSE <<>>
  ELSE printAllFailures(failures, 1, count)
       \o (IF printSummary
           THEN NatToString(passedCount(count, Len(failures))) \o <<"/">>
                \o NatToString(count) \o TestsPassedOpen
                \o NatToString(Len(failures)) \o FailuresCloseNl
           ELSE <<>>)

\* runAllTest after the for loop: what it returns.
allPassed(failures) == failures = <<>>

\* ------------------------------------------------------------------ state

VARIABLES
  result,   \* the TestResult the running test case is bound to
  pc,       \* where the program is
  budget,   \* assertion-API calls still to be explored
  lastOp,   \* the last call made, with its arguments
  calls,    \* the addFailure calls made on result, in order
  pops,     \* the popPredicateContext calls made on result
  JSON_USE_EXCEPTION,  \* the build: 1 compiles the try/catch of runTestAt
  tests_,   \* Runner::tests_: the registered test cases, by name
  printSummary,        \* the argument of runAllTest
  index,    \* the loop variable of runAllTest (0-based)
  failures, \* the local deque of runAllTest: copies of the failed results
  out,      \* what has been written to stdout
  ret,      \* what runAllTest returned: "none", "true" or "false"
  ran       \* the test cases that ended, in order, and whether addFailure
            \* was called in each

runnerVars == <<JSON_USE_EXCEPTION, tests_, printSummary, index, failures, out, ret, ran>>

vars == <<result, pc, budget, lastOp, calls, pops, JSON_USE_EXCEPTION, tests_,
          printSummary, index, failures, out, ret, ran>>

\* A call: its arguments, and the depth and tail frame id of the predicate
\* chain when it was made.
Op(op, site, value, value2, r) ==
  [ op |-> op, site |-> site, value |-> value, value2 |-> value2,
    depth |-> Len(r.chain),
    frame |-> IF r.chain = <<>> THEN 0 ELSE r.chain[Len(r.chain)].id_ ]

\* A test case body running against a fresh TestResult (TestCase::run).
Init ==
  /\ result = TestResult
  /\ pc = "body"
  /\ budget = MaxOps
  /\ lastOp = Op("none", NoSite, NoValue, NoValue, TestResult)
  /\ calls = <<>>
  /\ pops = 0
  /\ JSON_USE_EXCEPTION = 0
  /\ tests_ = <<>>
  /\ printSummary = FALSE
  /\ index = 0
  /\ failures = <<>>
  /\ out = <<>>
  /\ ret = "none"
  /\ ran = <<>>

Step(op, site, value, value2) ==
  /\ pc = "body"
  /\ budget > 0
  /\ budget' = budget - 1
  /\ lastOp' = Op(op, site, value, value2, result)
  /\ pc' = pc
  /\ UNCHANGED runnerVars

Call(site) ==
  [ site |-> site, depth |-> Len(result.chain),
    frames |-> {result.chain[p].id_ : p \in DOMAIN result.chain} ]

\* JSONTEST_ASSERT_PRED(expr), entry.
PushPredicate ==
  \E site \in PredSites :
    /\ Step("push", site, NoValue, NoValue)
    /\ result' = pushPredicateContext(result, site)
    /\ UNCHANGED <<calls, pops>>

\* result_->popPredicateContext().
PopPredicate ==
  /\ Step("pop", NoSite, NoValue, NoValue)
  /\ result' = popPredicateContext(result)
  /\ pops' = pops + 1
  /\ calls' = calls

\* JSONTEST_ASSERT(expr) with expr false: result_->addFailure(...).
AddFailure ==
  \E site \in AssertSites :
    /\ Step("addFailure", site, NoValue, NoValue)
    /\ result' = addFailure(result, site.file, site.line, site.expr)
    /\ calls' = Append(calls, Call(site))
    /\ pops' = pops

\* *result_ << value.
InsertValue ==
  \E v \in {Int64V(n) : n \in Int64Values} \cup {UInt64V(n) : n \in UInt64Values}
           \cup {IntV(n) : n \in IntValues} \cup {BoolV(b) : b \in BOOLEAN}
           \cup {TextV(s) : s \in Texts} :
    /\ Step("insert", NoSite, v, NoValue)
    /\ result' = insert(result, v)
    /\ UNCHANGED <<calls, pops>>

\* MINITEST_ASSERT_EQUAL(first, second).
AssertEqual ==
  \E first \in EqualValues, second \in EqualValues :
    /\ Step("assertEqual", EqualSite, IntV(first), IntV(second))
    /\ result' = MINITEST_ASSERT_EQUAL(result, first, second, EqualSite)
    /\ calls' = IF first # second THEN Append(calls, Call(EqualSite)) ELSE calls
    /\ pops' = pops

Body == PushPredicate \/ PopPredicate \/ AddFailure \/ InsertValue \/ AssertEqual

Next == Body

Spec == Init /\ [][Next]_vars

\* ---------------------------------------------------------- Runner actions

\* Runner::Runner, in either build.
InitRunner ==
  /\ result = TestResult
  /\ pc = "idle"
  /\ budget = RunnerOps
  /\ lastOp = Op("none", NoSite, NoValue, NoValue, TestResult)
  /\ calls = <<>>
  /\ pops = 0
  /\ JSON_USE_EXCEPTION \in {0, 1}
  /\ tests_ = <<>>
  /\ printSummary = FALSE
  /\ index = 0
  /\ failures = <<>>
  /\ out = <<>>
  /\ ret = "none"
  /\ ran = <<>>

\* runner.add(factory).
Add ==
  /\ pc = "idle"
  /\ Len(tests_) < MaxTests
  /\ tests_' = Append(tests_, TestName(Len(tests_) + 1))
  /\ lastOp' = Op("add", NoSite, NoValue, NoValue, result)
  /\ UNCHANGED <<result, pc, budget, calls, pops, JSON_USE_EXCEPTION,
                 printSummary, index, failures, out, ret, ran>>

\* runner.runAllTest(printSummary), up to the for loop.
RunAllTest ==
  /\ pc = "idle"
  /\ \E b \in BOOLEAN : printSummary' = b
  /\ index' = 0
  /\ failures' = <<>>
  /\ pc' = "loop"
  /\ lastOp' = Op("runAllTest", NoSite, NoValue, NoValue, result)
  /\ UNCHANGED <<result, budget, calls, pops, JSON_USE_EXCEPTION, tests_,
                 out, ret, ran>>

\* One turn of the for loop: TestResult result; runTestAt(index, result), up
\* to the test case body.
RunTestAt ==
  /\ pc = "loop"
  /\ index < Len(tests_)
  /\ result' = setTestName(TestResult, tests_[index + 1])
  /\ out' = out \o beginTestOutput(tests_[index + 1])
  /\ calls' = <<>>
  /\ pops' = 0
  /\ lastOp' = Op("run", NoSite, NoValue, NoValue, TestResult)
  /\ pc' = "body"
  /\ UNCHANGED <<budget, JSON_USE_EXCEPTION, tests_, printSummary, index, failures,
                 ret, ran>>

\* runTestAt and the loop turn once the test case is over with result r.
EndTest(r, anyCall) ==
  /\ result' = r
  /\ out' = out \o statusOutput(r)
  /\ failures' = collect(failures, r)
  /\ index' = index + 1
  /\ ran' = Append(ran, [name |-> tests_[index + 1], failed |-> anyCall])
  /\ pc' = "loop"

\* The test case body returns: every JSONTEST_ASSERT_PRED it entered is left.
Return ==
  /\ pc = "body"
  /\ result.chain = <<>>
  /\ EndTest(result, calls # <<>>)
  /\ lastOp' = Op("return", NoSite, NoValue, NoValue, result)
  /\ UNCHANGED <<budget, calls, pops, JSON_USE_EXCEPTION, tests_, printSummary, ret>>

\* The test case body throws a std::exception. The frames of the predicates
\* it was in are unwound with the chain still linked to them. Without the
\* try/catch the exception leaves runAllTest. With it, addFailure walks the
\* chain: over dead frames the walk reads what the stack then holds, which is
\* the frames as they were, or a chain that ends earlier, or a wild pointer.
Throw ==
  \E what \in Whats :
    /\ pc = "body"
    /\ lastOp' = Op("throw", CatchSite, TextV(what), NoValue, result)
    /\ UNCHANGED <<budget, pops, JSON_USE_EXCEPTION, tests_, printSummary, ret>>
    /\ \/ /\ JSON_USE_EXCEPTION = 0
          /\ pc' = "thrown"
          /\ UNCHANGED <<result, calls, index, failures, out, ran>>
       \/ /\ JSON_USE_EXCEPTION = 1
          /\ \E seen \in 0..Len(result.chain) :
               /\ EndTest(catchException(result, what, seen), TRUE)
               /\ calls' = Append(calls, Call(CatchSite))
       \/ /\ JSON_USE_EXCEPTION = 1
          /\ result.chain # <<>>
          /\ pc' = "crashed"
          /\ UNCHANGED <<result, calls, index, failures, out, ran>>

\* runAllTest after the for loop.
Finish ==
  /\ pc = "loop"
  /\ index >= Len(tests_)
  /\ out' = out \o summaryOutput(failures, Len(tests_), printSummary)
  /\ ret' = IF allPassed(failures) THEN "true" ELSE "false"
  /\ pc' = "done"
  /\ lastOp' = Op("finish", NoSite, NoValue, NoValue, result)
  /\ UNCHANGED <<result, budget, calls, pops, JSON_USE_EXCEPTION, tests_,
                 printSummary, index, failures, ran>>

NextRunner == Add \/ RunAllTest \/ RunTestAt \/ Body \/ Return \/ Throw \/ Finish

SpecRunner == InitRunner /\ [][NextRunner]_vars


\* ----------------------------------------------------------------- claims

\* The text a streamed value is to appear as, written out value by value.
Rendering(v) ==
  CASE v = Int64V(-3) -> <<"-", "3">>
    [] v = Int64V(0) -> <<"0">>
    [] v = Int64V(12) -> <<"1", "2">>
    [] v = UInt64V(105) -> <<"1", "0", "5">>
    [] v = IntV(40) -> <<"4", "0">>
    [] v = BoolV(TRUE) -> <<"t", "r", "u", "e">>
    [] v = BoolV(FALSE) -> <<"f", "a", "l", "s", "e">>
    [] v.kind = "text" -> v.s

Contains(text, part) ==
  \E i \in 1..(Len(text) - Len(part) + 1) : SubSeq(text, i, i + Len(part) - 1) = part

\* The Failure a call site gives rise to, its message left aside.
SameSite(failure, file, line, expr) ==
  /\ failure.file_ = file
  /\ failure.line_ = line
  /\ failure.expr_ = (IF expr.null THEN <<>> ELSE expr.str)

\* The ids of the frames that have a Failure Record.
Reported(r) == {r.failures_[i].from_ : i \in DOMAIN r.failures_} \ {0}

\* The Failure Record of frame id.
RecordOf(r, id) == CHOOSE i \in DOMAIN r.failures_ : r.failures_[i].from_ = id

\* C1: with D frames pushed, none popped and no earlier failure, the first
\* addFailure appends exactly D+1 records: the D frames in chain order,
\* outermost first, then the failing expression, at nesting levels 0..D.
C1_ChainReported ==
  [][ (lastOp'.op = "addFailure" /\ calls = <<>> /\ pops = 0)
      => LET D == Len(result.chain)
             F == result'.failures_
         IN /\ Len(F) = D + 1
            /\ \A k \in 1..D :
                 /\ SameSite(F[k], result.chain[k].file_, result.chain[k].line_,
                             result.chain[k].expr_)
                 /\ F[k].from_ = k
                 /\ F[k].nestingLevel_ = k - 1
            /\ SameSite(F[D + 1], lastOp'.site.file, lastOp'.site.line, lastOp'.site.expr)
            /\ F[D + 1].from_ = 0
            /\ F[D + 1].nestingLevel_ = D ]_vars

C1_Witness ==
  /\ lastOp.op = "addFailure"
  /\ Len(calls) = 1
  /\ pops = 0
  /\ Len(result.chain) = 3
  /\ Len(result.failures_) = 4

\* C2: no frame has two Failure Records, and an addFailure appends one record
\* for each chain frame that has none yet, in chain order, and then the one
\* record of the failing expression, leaving the earlier records as they are.
C2_NoDuplicateAncestry ==
  [][ /\ \A i, j \in DOMAIN result'.failures_ :
           (result'.failures_[i].from_ # 0
            /\ result'.failures_[i].from_ = result'.failures_[j].from_) => i = j
      /\ lastOp'.op = "addFailure"
         => LET old == result.failures_
                new == result'.failures_
                fresh == SelectSeq(result.chain, LAMBDA c : c.id_ \notin Reported(result))
            IN /\ Len(new) = Len(old) + Len(fresh) + 1
               /\ SubSeq(new, 1, Len(old)) = old
               /\ \A k \in 1..Len(fresh) : new[Len(old) + k].from_ = fresh[k].id_
               /\ new[Len(new)].from_ = 0 ]_vars

\* A second addFailure inside a chain whose outer frame is already reported
\* and whose inner frame is not.
C2_Witness ==
  /\ lastOp.op = "addFailure"
  /\ Len(calls) = 2
  /\ Len(result.chain) = 2
  /\ calls[1].depth = 1
  /\ Len(result.failures_) = 4

\* C3: popping a frame that has a Failure Record makes that record the
\* message target, and the text streamed next is appended to that record and
\* to no other.
C3_PopRetargets ==
  [][ /\ (lastOp'.op = "pop" /\ lastOp'.frame \in Reported(result))
         => result'.messageTarget_ = RecordOf(result, lastOp'.frame)
      /\ (lastOp.op = "pop" /\ lastOp.frame \in Reported(result) /\ lastOp'.op = "insert")
         => result'.failures_ =
              [result.failures_ EXCEPT ![RecordOf(result, lastOp.frame)].message_ =
                                          @ \o Rendering(lastOp'.value)] ]_vars

\* Text has landed on the popped frame's record; the inner failure's record,
\* made after it, has none.
C3_Witness ==
  /\ lastOp.op = "insert"
  /\ Len(result.failures_) = 2
  /\ result.failures_[1].from_ # 0
  /\ result.failures_[1].message_ # <<>>
  /\ result.failures_[2].from_ = 0
  /\ result.failures_[2].message_ = <<>>
  /\ result.chain = <<>>

\* C4: when every addFailure call was made with no frame on the stack, the
\* Failure Records are those calls, one each, in call order, at nesting level
\* 0; and a test body that has failed can go on to report another failure.
C4_FlatFailures ==
  /\ (\A k \in DOMAIN calls : calls[k].depth = 0)
     => /\ Len(result.failures_) = Len(calls)
        /\ \A k \in DOMAIN calls :
             /\ SameSite(result.failures_[k], calls[k].site.file, calls[k].site.line,
                         calls[k].site.expr)
             /\ result.failures_[k].nestingLevel_ = 0
  /\ (calls # <<>> /\ budget > 0) => ENABLED AddFailure

\* Two failures in a row, after a predicate that was pushed and popped.
C4_Witness ==
  /\ Len(calls) = 2
  /\ \A k \in DOMAIN calls : calls[k].depth = 0
  /\ calls[1].site # calls[2].site
  /\ result.predicateId_ = 2
  /\ pops = 1

\* The test body  int a = 2; MINITEST_ASSERT_EQUAL(a, 1);  has just run on a
\* TestResult on which nothing was pushed, popped or reported before.
C5_Body ==
  /\ lastOp.op = "assertEqual"
  /\ lastOp.value = IntV(2)
  /\ lastOp.value2 = IntV(1)
  /\ Len(calls) = 1
  /\ pops = 0
  /\ result.predicateId_ = 1

\* C5 as stated: the body yields one Failure Record, failed() is true, and
\* the printed record contains "Expected: 1" and "Actual  : 2".
C5_AsStated ==
  C5_Body
  => /\ Len(result.failures_) = 1
     /\ failed(result)
     /\ Contains(printFailure(result, FALSE), ExpectedLabel \o <<"1">>)
     /\ Contains(printFailure(result, FALSE), ActualLabel \o <<"2">>)

\* C5, amended: the body yields one Failure Record, failed() is true, and the
\* printed record contains "Expected: 2" and "Actual  : 1": the macro's first
\* argument is reported as the expected value, its second as the actual one.
C5_FirstArgumentIsExpected ==
  C5_Body
  => /\ Len(result.failures_) = 1
     /\ failed(result)
     /\ Contains(printFailure(result, FALSE), ExpectedLabel \o <<"2">>)
     /\ Contains(printFailure(result, FALSE), ActualLabel \o <<"1">>)
     /\ ~Contains(printFailure(result, FALSE), ExpectedLabel \o <<"1">>)
     /\ ~Contains(printFailure(result, FALSE), ActualLabel \o <<"2">>)

C5_Witness ==
  /\ C5_Body
  /\ result.failures_[1].message_ # <<>>
  /\ budget = MaxOps - 1

\* A small number as it is to be printed.
Numeral(n) ==
  CASE n = 0 -> <<"0">> [] n = 1 -> <<"1">> [] n = 2 -> <<"2">> [] n = 3 -> <<"3">>
    [] n = 4 -> <<"4">> [] n = 5 -> <<"5">> [] n = 6 -> <<"6">> [] n = 7 -> <<"7">>
    [] n = 8 -> <<"8">> [] n = 9 -> <<"9">>

EndsWith(text, part) ==
  /\ Len(text) >= Len(part)
  /\ SubSeq(text, Len(text) - Len(part) + 1, Len(text)) = part

\* C6 as stated, for the build that compiles the try/catch: an exception
\* thrown by a test body, also inside predicate frames, is caught by
\* runTestAt and adds exactly one Failure Record, labelled "Unexpected
\* exception caught:" and carrying the exception's message; the test is
\* reported FAILED, and a run that has ended has run every registered test.
C6_AsStated ==
  [][ /\ (JSON_USE_EXCEPTION = 1 /\ lastOp'.op = "throw")
         => /\ pc' = "loop"
            /\ Len(result'.failures_) = Len(result.failures_) + 1
            /\ SubSeq(result'.failures_, 1, Len(result.failures_)) = result.failures_
            /\ result'.failures_[Len(result'.failures_)].expr_ = ExceptionLabel
            /\ result'.failures_[Len(result'.failures_)].message_ = lastOp'.value.s
            /\ out' = out \o <<"F", "A", "I", "L", "E", "D", "\n">>
      /\ (JSON_USE_EXCEPTION = 1 /\ pc' \in {"done", "crashed"})
         => (pc' = "done" /\ Len(ran') = Len(tests_')) ]_vars

\* The number of test cases in which addFailure was called.
FailedTests == Cardinality({k \in DOMAIN ran : ran[k].failed})

SummaryLine(N, F) ==
  IF F = 0
  THEN <<"A","l","l"," ">> \o Numeral(N) \o <<" ","t","e","s","t","s"," ","p","a","s","s","e","d","\n">>
  ELSE Numeral(N - F) \o <<"/">> \o Numeral(N) \o <<" ","t","e","s","t","s"," ","p","a","s","s","e","d"," ","(">>
       \o Numeral(F) \o <<" ","f","a","i","l","u","r","e","(","s",")",")","\n">>

\* C7: when runAllTest returns, with N registered tests of which F failed, it
\* returns true iff F = 0, and with printSummary the last thing it has
\* printed is "All N tests passed" if F = 0 (also for N = 0) and
\* "P/N tests passed (F failure(s))" with P = N - F otherwise.
C7_SummaryAndResult ==
  pc = "done"
  => /\ Len(ran) = Len(tests_)
     /\ ret = (IF FailedTests = 0 THEN "true" ELSE "false")
     /\ printSummary => EndsWith(out, SummaryLine(Len(tests_), FailedTests))
     /\ (printSummary /\ tests_ = <<>>) => out = <<"A","l","l"," ","0"," ","t","e","s","t","s"," ","p","a","s","s","e","d","\n">>

\* Three tests, one failing: "2/3 tests passed (1 failure(s))" and false.
C7_Witness ==
  /\ pc = "done"
  /\ Len(tests_) = 3
  /\ FailedTests = 1
  /\ printSummary
  /\ ret = "false"
  /\ EndsWith(out, <<"2","/","3"," ","t","e","s","t","s"," ","p","a","s","s","e","d"," ","(","1"," ","f","a","i","l","u","r","e","(","s",")",")","\n">>)

\* C8: failed() is true exactly when addFailure has been called, whatever
\* pushes, pops and message appends came after.
C8_FailedIffFailure == failed(result) <=> (calls # <<>>)

C8_Witness ==
  /\ failed(result)
  /\ lastOp.op = "pop"
  /\ pops >= 2

\* C9: a streamed value is appended, in its text form, at the end of the
\* message of the message target, and nothing else of the TestResult changes;
\* two values streamed in a row appear in call order.
C9_InsertAppends ==
  [][ (lastOp'.op = "insert" /\ result.messageTarget_ # 0)
      => /\ result' = [result EXCEPT !.failures_[result.messageTarget_].message_ =
                                        @ \o Rendering(lastOp'.value)]
         /\ lastOp.op = "insert"
            => LET message == result'.failures_[result'.messageTarget_].message_
                   tail == Rendering(lastOp.value) \o Rendering(lastOp'.value)
               IN /\ Len(message) >= Len(tail)
                  /\ SubSeq(message, Len(message) - Len(tail) + 1, Len(message)) = tail ]_vars

\* An integer and then a boolean were streamed onto the second of two records.
C9_Witness ==
  /\ lastOp.op = "insert"
  /\ Len(result.failures_) = 2
  /\ result.failures_[1].message_ = <<>>
  /\ result.failures_[2].message_ = <<"-", "3", "t", "r", "u", "e">>

\* C10: streaming a value before any addFailure changes nothing of the
\* TestResult: no failure, no message target.
C10_InsertWithoutTarget ==
  [][ (lastOp'.op = "insert" /\ calls = <<>>)
      => /\ result' = result
         /\ result'.failures_ = <<>>
         /\ ~failed(result')
         /\ result'.messageTarget_ = 0 ]_vars

C10_Witness ==
  /\ lastOp.op = "insert"
  /\ calls = <<>>
  /\ Len(result.chain) = 1
  /\ pops = 1

\* A source line number as it is to be printed.
LineText(n) ==
  CASE n = 11 -> <<"1", "1">> [] n = 12 -> <<"1", "2">> [] n = 21 -> <<"2", "1">>
    [] n = 22 -> <<"2", "2">> [] n = 37 -> <<"3", "7">> [] n = 176 -> <<"1", "7", "6">>

\* The position of the first line break of a text, 0 if it has none.
FirstBreak(text) ==
  IF \E i \in DOMAIN text : text[i] = "\n"
  THEN CHOOSE i \in DOMAIN text :
         text[i] = "\n" /\ \A j \in 1..(i - 1) : text[j] # "\n"
  ELSE 0

\* The lines of a text, each with the line break that ends it.
RECURSIVE Lines(_)
Lines(text) ==
  IF text = <<>> THEN <<>>
  ELSE IF FirstBreak(text) = 0 THEN <<text>>
  ELSE <<SubSeq(text, 1, FirstBreak(text))>>
       \o Lines(SubSeq(text, FirstBreak(text) + 1, Len(text)))

RECURSIVE Flatten(_)
Flatten(texts) ==
  IF texts = <<>> THEN <<>> ELSE Head(texts) \o Flatten(Tail(texts))

Pad(level) == [i \in 1..(2 * level) |-> " "]

\* A Failure Record as it is to be printed: the location and the expression
\* behind 2 spaces per nesting level, then every line of the message behind
\* 2 spaces more.
RenderedRecord(f) ==
  Pad(f.nestingLevel_) \o f.file_.str \o <<"(">> \o LineText(f.line_)
  \o <<")", ":", " ">> \o f.expr_ \o <<"\n">>
  \o (IF f.message_ = <<>> THEN <<>>
      ELSE Flatten([k \in DOMAIN Lines(f.message_) |->
                      Pad(f.nestingLevel_ + 1) \o Lines(f.message_)[k]])
           \o <<"\n">>)

Rendered(r, header) ==
  IF r.failures_ = <<>> THEN <<>>
  ELSE (IF header
        THEN <<"*", " ", "D", "e", "t", "a", "i", "l", " ", "o", "f", " ">> \o r.name_
             \o <<" ", "t", "e", "s", "t", " ", "f", "a", "i", "l", "u", "r", "e", ":", "\n">>
        ELSE <<>>)
       \o Flatten([k \in DOMAIN r.failures_ |-> RenderedRecord(r.failures_[k])])

Progress ==
  Flatten([k \in DOMAIN ran |->
             <<"T","e","s","t","i","n","g"," ">> \o ran[k].name \o <<":", " ">>
             \o (IF ran[k].failed THEN <<"F","A","I","L","E","D","\n">>
                 ELSE <<"O","K","\n">>)])

\* The names of the tests that have failed, in the order they ran.
FailedNames ==
  LET failing == SelectSeq(ran, LAMBDA t : t.failed)
  IN [k \in DOMAIN failing |-> failing[k].name]

\* C12: the tests run one at a time in registration order, each on a fresh
\* TestResult; the failing results are kept in that order, nothing but the
\* progress lines is printed while tests remain, and the failure details come
\* after the last test, in test order.
C12_OneAtATimeInOrder ==
  /\ Len(ran) <= Len(tests_)
  /\ \A k \in DOMAIN ran : ran[k].name = tests_[k]
  /\ pc \in {"loop", "body", "done"}
     => /\ index = Len(ran)
        /\ [k \in DOMAIN failures |-> failures[k].name_] = FailedNames
  /\ pc = "loop" => out = Progress
  /\ lastOp.op = "run"
     => /\ pc = "body"
        /\ result.failures_ = <<>> /\ result.chain = <<>>
        /\ result.predicateStackTail_ = 0 /\ result.lastUsedPredicateId_ = 0
        /\ result.messageTarget_ = 0 /\ result.predicateId_ = 1
  /\ pc = "body"
     => /\ result.name_ = tests_[index + 1]
        /\ out = Progress \o <<"T","e","s","t","i","n","g"," ">> \o tests_[index + 1]
                 \o <<":", " ">>
        /\ Cardinality({k \in DOMAIN result.failures_ : result.failures_[k].from_ = 0})
           = Len(calls)
        /\ \A k \in DOMAIN result.chain : result.chain[k].id_ < result.predicateId_
        /\ result.lastUsedPredicateId_ < result.predicateId_
  /\ pc = "done"
     => /\ Len(ran) = Len(tests_)
        /\ out = Progress
                 \o Flatten([k \in DOMAIN failures |->
                               Rendered(failures[k], Len(tests_) > 1)])
                 \o (IF printSummary THEN SummaryLine(Len(tests_), FailedTests)
                     ELSE <<>>)

\* Three tests have run, the first and the last failed, and the details of
\* the first are printed before those of the last.
C12_Witness ==
  /\ pc = "done"
  /\ Len(tests_) = 3
  /\ FailedNames = <<tests_[1], tests_[3]>>
  /\ Len(failures) = 2
  /\ failures[1].failures_ # failures[2].failures_
  /\ ~printSummary
  /\ EndsWith(out, Rendered(failures[1], TRUE) \o Rendered(failures[2], TRUE))

\* The step is an addFailure call: a JSONTEST_ASSERT that fails or a
\* MINITEST_ASSERT_EQUAL of two different values.
IsAddFailure(op) ==
  \/ op.op = "addFailure"
  \/ op.op = "assertEqual" /\ op.value # op.value2

\* C13: the message target is null exactly while no failure has occurred; an
\* addFailure sets it to the record of the failure itself, the last one
\* appended; a pop of a frame that has a record sets it to that record; and
\* nothing else moves it.
C13_MessageTarget ==
  [][ /\ (result'.messageTarget_ = 0) <=> (calls' = <<>>)
      /\ IsAddFailure(lastOp')
         => /\ result'.messageTarget_ = Len(result'.failures_)
            /\ Len(result'.failures_) > Len(result.failures_)
            /\ result'.failures_[result'.messageTarget_].from_ = 0
      /\ (lastOp'.op = "pop" /\ lastOp'.frame \in Reported(result))
         => result'.messageTarget_ = RecordOf(result, lastOp'.frame)
      /\ (~IsAddFailure(lastOp') /\ ~(lastOp'.op = "pop" /\ lastOp'.frame \in Reported(result)))
         => result'.messageTarget_ = result.messageTarget_ ]_vars

\* A failure in a predicate, the pop of that predicate, which moved the target
\* back to record 1, and then a new failure, which has taken it to record 3.
C13_Witness ==
  /\ lastOp.op = "addFailure"
  /\ pops = 1
  /\ Len(calls) = 2
  /\ calls[1].depth = 1
  /\ result.failures_[1].from_ # 0
  /\ Len(result.failures_) = 3
  /\ result.messageTarget_ = 3

\* The position in the chain of the frame with this id.
PositionOf(chain, id) == CHOOSE p \in DOMAIN chain : chain[p].id_ = id

\* C14: each record an addFailure appends has the nesting level of its place
\* in the chain at that time: the record of the k-th frame from the root has
\* level k-1 and the record of the failure itself has the depth of the chain,
\* whether or not shallower frames were reported before.
C14_LevelIsChainPosition ==
  [][ IsAddFailure(lastOp')
      => \A k \in (Len(result.failures_) + 1)..Len(result'.failures_) :
           LET f == result'.failures_[k]
           IN IF f.from_ = 0
              THEN f.nestingLevel_ = Len(result.chain)
              ELSE /\ \E p \in DOMAIN result.chain : result.chain[p].id_ = f.from_
                   /\ f.nestingLevel_ = PositionOf(result.chain, f.from_) - 1 ]_vars

\* The outer frame was reported by a first failure at depth 1; a second
\* failure at depth 2 skips it: the inner frame's record has level 1 and the
\* failure's record level 2.
C14_Witness ==
  /\ lastOp.op = "addFailure"
  /\ Len(calls) = 2
  /\ calls[1].depth = 1
  /\ calls[2].depth = 2
  /\ Len(result.failures_) = 4
  /\ result.failures_[3].from_ = 2
  /\ result.failures_[3].nestingLevel_ = 1
  /\ result.failures_[4].nestingLevel_ = 2

C16_AppendOnly ==
  [][ /\ Len(result'.failures_) >= Len(result.failures_)
      /\ \A k \in DOMAIN result.failures_ :
           /\ result'.failures_[k].file_ = result.failures_[k].file_
           /\ result'.failures_[k].line_ = result.failures_[k].line_
           /\ result'.failures_[k].expr_ = result.failures_[k].expr_
           /\ result'.failures_[k].nestingLevel_ = result.failures_[k].nestingLevel_
           /\ result'.failures_[k].from_ = result.failures_[k].from_
      /\ (Len(result'.failures_) > Len(result.failures_)) <=> IsAddFailure(lastOp')
      /\ lastOp'.op \in {"push", "pop", "insert"}
         => Len(result'.failures_) = Len(result.failures_) ]_vars

\* A message append on the first of two records, after the pop that made it
\* the target: the record has the text and the sequence is as it was.
C16_Witness ==
  /\ lastOp.op = "insert"
  /\ lastOp.value = TextV(<<"m">>)
  /\ pops = 1
  /\ Len(result.failures_) = 2
  /\ result.messageTarget_ = 1
  /\ result.failures_[1].message_ = <<"m">>
  /\ result.failures_[1].expr_ = <<"p">>

\* C17: lastUsedPredicateId_ never goes down; it changes only in an
\* addFailure, to the id of a frame of the chain greater than its value; a
\* push, a pop or a message append leaves it.
C17_WatermarkMonotone ==
  [][ /\ result'.lastUsedPredicateId_ >= result.lastUsedPredicateId_
      /\ result'.lastUsedPredicateId_ # result.lastUsedPredicateId_
         => /\ IsAddFailure(lastOp')
            /\ result'.lastUsedPredicateId_ > result.lastUsedPredicateId_
            /\ \E p \in DOMAIN result.chain :
                 result.chain[p].id_ = result'.lastUsedPredicateId_
      /\ lastOp'.op \in {"push", "pop", "insert"}
         => result'.lastUsedPredicateId_ = result.lastUsedPredicateId_ ]_vars

\* A first predicate was pushed and popped without a failure; the failure in
\* the second predicate takes the watermark from 0 to 2.
C17_Witness ==
  /\ lastOp.op = "addFailure"
  /\ pops = 1
  /\ Len(calls) = 1
  /\ Len(result.chain) = 1
  /\ result.chain[1].id_ = 2
  /\ result.lastUsedPredicateId_ = 2

\* C18: a frame of the chain has its failure_ set exactly when its id is at
\* most lastUsedPredicateId_, and failure_ then designates the record that
\* was made for this frame, with the frame's file, line and expression.
C18_LinkIffReported ==
  \A p \in DOMAIN result.chain :
    LET node == result.chain[p]
    IN /\ (node.failure_ # 0) <=> (node.id_ <= result.lastUsedPredicateId_)
       /\ node.failure_ # 0
          => /\ node.failure_ \in DOMAIN result.failures_
             /\ result.failures_[node.failure_].from_ = node.id_
             /\ SameSite(result.failures_[node.failure_], node.file_, node.line_,
                         node.expr_)

\* The outer frame has been reported and is linked to its record; the frame
\* pushed after the failure is above the watermark and has no link.
C18_Witness ==
  /\ lastOp.op = "push"
  /\ Len(result.chain) = 2
  /\ result.lastUsedPredicateId_ = 1
  /\ result.chain[1].failure_ = 1
  /\ result.chain[2].failure_ = 0
  /\ result.chain[1].line_ # result.chain[2].line_

\* The ids of the frames that were on the chain during an addFailure call.
FramesInFailures == UNION {calls[k].frames : k \in DOMAIN calls}

\* C19: there are as many Failure Records as addFailure calls plus frames
\* that were on the chain during at least one of the calls; the frames with a
\* record are exactly those, so a frame pushed and popped with no addFailure
\* in between has none.
C19_RecordCount ==
  /\ Len(result.failures_) = Len(calls) + Cardinality(FramesInFailures)
  /\ Reported(result) = FramesInFailures
  /\ Cardinality({k \in DOMAIN result.failures_ : result.failures_[k].from_ = 0})
     = Len(calls)

\* A failure in a predicate, after another predicate that was pushed and
\* popped without a failure: two records, none for the first predicate.
C19_Witness ==
  /\ Len(calls) = 1
  /\ calls[1].frames = {2}
  /\ pops = 1
  /\ result.predicateId_ = 3
  /\ Len(result.failures_) = 2
  /\ Reported(result) = {2}

\* C20: the ids along the chain rise strictly from the root, whose id is 0,
\* to the tail, all of them below predicateId_, and predicateStackTail_
\* designates the last node of the chain.
C20_ChainIdsIncrease ==
  /\ \A p \in DOMAIN result.chain :
       /\ result.chain[p].id_ > 0
       /\ result.chain[p].id_ < result.predicateId_
       /\ p > 1 => result.chain[p - 1].id_ < result.chain[p].id_
  /\ result.predicateStackTail_ = Len(result.chain)
  /\ result.predicateId_ >= 1

\* Two predicates entered, the inner one left, and a third entered: the chain
\* is the frames 1 and 3 and the next id is 4.
C20_Witness ==
  /\ lastOp.op = "push"
  /\ pops = 1
  /\ Len(result.chain) = 2
  /\ result.chain[1].id_ = 1
  /\ result.chain[2].id_ = 3
  /\ result.predicateId_ = 4
  /\ result.predicateStackTail_ = 2

\* C21: popPredicateContext called with no frame pushed changes nothing: the
\* chain stays empty, the tail stays the root, and the failures, the
\* watermark, the message target and the id counter are as they were.
C21_PopOnEmptyChain ==
  [][ /\ result.chain = <<>> => popPredicateContext(result) = result
      /\ (lastOp'.op = "pop" /\ result.chain = <<>>)
         => /\ result'.chain = <<>>
            /\ result'.predicateStackTail_ = 0
            /\ result'.failures_ = result.failures_
            /\ result'.lastUsedPredicateId_ = result.lastUsedPredicateId_
            /\ result'.messageTarget_ = result.messageTarget_
            /\ result'.predicateId_ = result.predicateId_
            /\ result'.name_ = result.name_ ]_vars

\* A predicate has reported a failure and was popped, and popPredicateContext
\* was called once more: the two records, the watermark and the target set by
\* the first pop are still there.
C21_Witness ==
  /\ lastOp.op = "pop"
  /\ lastOp.depth = 0
  /\ pops = 2
  /\ result.chain = <<>>
  /\ result.predicateStackTail_ = 0
  /\ Len(result.failures_) = 2
  /\ result.lastUsedPredicateId_ = 1
  /\ result.messageTarget_ = 1

=============================================================================
